---- MODULE Spec2Model ----
(***************************************************************************)
(* Model of trello-export-board.py: a one-shot, sequential export of a     *)
(* Trello board to one spreadsheet, one document per card and the cards'   *)
(* attachments.                                                            *)
(*                                                                         *)
(* Spec       the run of the script, Step 1 to the end of the card loop.   *)
(* SpecSan    sanitize_filename applied once and again.                    *)
(* SpecEsc    the text fields of a card's rendering context.               *)
(* SpecPct    the check-item loop and the completion string of a checklist.*)
(* SpecDate   the scan of the action list for a check-item's state date.   *)
(* SpecFiles  the card loop as far as the paths it writes to are concerned.*)
(*                                                                         *)
(* Text is a sequence of one-character strings.  JSON read from the API is *)
(* an input: each part is drawn from a small set when the code reads it.   *)
(***************************************************************************)
EXTENDS Integers, Sequences, FiniteSets, TLC

VARIABLES
    pc,           \* position of the script
    cause,        \* why the run ended ("" while it runs)
    exitStatus,   \* process exit status (-1 while it runs)
    reqs,         \* the API reads issued so far, in order
    failed,       \* an API read raised or answered another status than 200
    boards,       \* Step 1: [id, name] sorted by name
    prompted,     \* Step 2: the board prompt was shown
    num,          \* Step 2: the selected index
    boardId,      \* Step 2: id of the selected board (0: none)
    cards,        \* Step 4: the bulk card list
    it,           \* counter of the range iterator of the running card loop
    i,            \* the script's loop variable i
    rows1,        \* data rows of the open sheet (card ids)
    rows2,        \* data rows of the archived sheet (card ids)
    card,         \* the card detail of the current iteration
    ait,          \* counter of the range iterator of the attachment loop
    attachments,  \* the attachment list of the rendering context
    attLog,       \* the downloads of the current card: how each ended
    rendered,     \* number of documents rendered
    saves,        \* the documents saved, in order
    san,          \* SpecSan: input and results
    esc,          \* SpecEsc: card texts and context
    pct,          \* SpecPct: checklist, loop state and exported checklists
    dat,          \* SpecDate: check-item, action list and derived date
    fil           \* SpecFiles: the three output directories and the card loop

runVars == <<pc, cause, exitStatus, reqs, failed, boards, prompted, num, boardId, cards,
             it, i, rows1, rows2, card, ait, attachments, attLog, rendered,
             saves>>
funVars == <<san, esc, pct, dat, fil>>
vars == <<runVars, funVars>>

-----------------------------------------------------------------------------
(* Bounds of the model *)

MaxBoards == 2
MaxCards == 2
MaxInner == 1
MaxAtt == 2

BoardNames == {1, 2}          \* names, as their rank in string order
ClosedValues == {"False", "True"}   \* str(card['closed'])
Outcomes == {"ok", "status", "exc"} \* 200, another status, transport exception

SeqsUpTo(S, n) == UNION {[1..k -> S] : k \in 0..n}

-----------------------------------------------------------------------------
(* Process exit *)

\* sys.exit() with no argument
SysExitStatus == 0
\* an exception nobody catches
UncaughtStatus == 1
\* the end of the script
EndStatus == 0

Terminal == {"exited", "crashed", "finished"}

\* sys.exit(): the "exited" position, with why
Exit(why) ==
    /\ pc' = "exited"
    /\ cause' = why
    /\ exitStatus' = SysExitStatus

\* an exception that reaches the top level
Crash(why) ==
    /\ pc' = "crashed"
    /\ cause' = why
    /\ exitStatus' = UncaughtStatus

\* one of the four API reads, with how it ended
Request(kind, id, out) ==
    /\ reqs' = Append(reqs, [kind |-> kind, id |-> id])
    /\ failed' = (failed \/ out # "ok")


-----------------------------------------------------------------------------
(* Step 1 : Get boards *)

\* sorted(boards, key=name): a stable insertion sort
RECURSIVE InsertByName(_, _)
InsertByName(b, s) ==
    IF s = <<>> THEN <<b>>
    ELSE IF b.name < Head(s).name THEN <<b>> \o s
    ELSE <<Head(s)>> \o InsertByName(b, Tail(s))

RECURSIVE SortByName(_)
SortByName(s) ==
    IF s = <<>> THEN <<>>
    ELSE InsertByName(s[Len(s)], SortByName(SubSeq(s, 1, Len(s) - 1)))

\* the board list of the response: ids are distinct
BoardsJson(names) == [k \in 1..Len(names) |-> [id |-> k, name |-> names[k]]]

\* the loop variable after "for i in range(n)": unchanged when n = 0
AfterRange(n, old) == IF n > 0 THEN n - 1 ELSE old

\* the list as returned, not sorted
BoardsNoSort(json) == json

BoardsOf(json) == SortByName(json)

GetBoards ==
    /\ pc = "GetBoards"
    /\ \E out \in Outcomes :
        /\ Request("boards", 0, out)
        /\ \/ /\ out = "exc"
              /\ Exit("boards_exception")
              /\ UNCHANGED <<boards, i>>
           \/ /\ out = "status"
              /\ Exit("boards_status")
              /\ UNCHANGED <<boards, i>>
           \/ /\ out = "ok"
              /\ \E names \in SeqsUpTo(BoardNames, MaxBoards) :
                   /\ boards' = BoardsOf(BoardsJson(names))
                   /\ i' = AfterRange(Len(names), i)
              /\ pc' = "SelectBoard"
              /\ UNCHANGED <<cause, exitStatus>>
    /\ UNCHANGED <<prompted, num, boardId, cards, it, rows1, rows2, card, ait,
                   attachments, attLog, rendered, saves, funVars>>

-----------------------------------------------------------------------------
(* Step 2 : Select a board *)

\* the integers the user may type
TypedInts == -1..(MaxBoards + 1)

\* seq[n] of Python: 0-based, a negative n counts from the end
PyInRange(s, n) == -Len(s) <= n /\ n < Len(s)
PyIndex(s, n) == IF n >= 0 THEN s[n + 1] ELSE s[Len(s) + n + 1]

\* not (num < 0 or num >= len(boards))
ValidNum(n) == ~(n < 0 \/ n >= Len(boards))

\* boardId = boards[num][0], an IndexError when num is out of range
TakeBoard(n) ==
    IF PyInRange(boards, n)
    THEN /\ boardId' = PyIndex(boards, n).id
         /\ pc' = "GetLists"
         /\ UNCHANGED <<cause, exitStatus>>
    ELSE /\ Crash("index_error")
         /\ UNCHANGED boardId

\* len(boards) > 1: the list is printed, then one turn of the prompt loop
PromptBoard ==
    /\ pc = "SelectBoard"
    /\ Len(boards) > 1
    /\ prompted' = TRUE
    /\ i' = AfterRange(Len(boards), i)
    /\ \/ \* int() raises ValueError: the prompt is shown again
          UNCHANGED <<num, boardId, pc, cause, exitStatus>>
       \/ \E typed \in TypedInts :
            /\ num' = typed
            /\ IF ValidNum(typed)
               THEN TakeBoard(typed)
               ELSE UNCHANGED <<boardId, pc, cause, exitStatus>>
    /\ UNCHANGED <<reqs, failed, boards, cards, it, rows1, rows2, card, ait, attachments,
                   attLog, rendered, saves, funVars>>

\* len(boards) <= 1: no prompt, num stays 0 and boards[0] is read
SelectSole ==
    /\ pc = "SelectBoard"
    /\ Len(boards) <= 1
    /\ TakeBoard(num)
    /\ UNCHANGED <<reqs, failed, boards, prompted, num, cards, it, i, rows1, rows2, card,
                   ait, attachments, attLog, rendered, saves, funVars>>

-----------------------------------------------------------------------------
(* Step 3 : Get lists *)

\* the status is not looked at: the script goes on to Step 4
ListsStatusIgnored == pc' = "GetCards" /\ UNCHANGED <<cause, exitStatus>>

\* the else branch of "if response.status_code == 200"
ListsStatus == Exit("lists_status")

GetLists ==
    /\ pc = "GetLists"
    /\ \E out \in Outcomes :
        /\ Request("lists", boardId, out)
        /\ \/ /\ out = "exc"
              /\ Crash("lists_exception")
              /\ UNCHANGED i
           \/ /\ out = "status"
              /\ ListsStatus
              /\ UNCHANGED i
           \/ /\ out = "ok"
              /\ \E n \in 0..MaxInner : i' = AfterRange(n, i)
              /\ pc' = "GetCards"
              /\ UNCHANGED <<cause, exitStatus>>
    /\ UNCHANGED <<boards, prompted, num, boardId, cards, it, rows1, rows2, card,
                   ait, attachments, attLog, rendered, saves, funVars>>

-----------------------------------------------------------------------------
(* Step 4 : Export board to XLSX *)

\* the bulk card list: ids are distinct
CardsJson(closed) == [k \in 1..Len(closed) |-> [id |-> k, closed |-> closed[k]]]

GetCards ==
    /\ pc = "GetCards"
    /\ \E out \in Outcomes :
        /\ Request("cards", boardId, out)
        /\ \/ /\ out = "exc"
              /\ Crash("cards_exception")
              /\ UNCHANGED cards
           \/ /\ out = "status"
              /\ Exit("cards_status")
              /\ UNCHANGED cards
           \/ /\ out = "ok"
              /\ \E closed \in SeqsUpTo(ClosedValues, MaxCards) :
                   /\ cards' = CardsJson(closed)
                   /\ IF Len(closed) = 0
                      THEN Exit("no_card")
                      ELSE /\ pc' = "Xlsx"
                           /\ UNCHANGED <<cause, exitStatus>>
    /\ UNCHANGED <<boards, prompted, num, boardId, it, i, rows1, rows2, card, ait,
                   attachments, attLog, rendered, saves, funVars>>

\* remove_if_exists: the file exists and remove() raises
RemoveFails == Exit("remove_failed")

\* remove_if_exists(path + boardFileName), workbook, sheets, header row
XlsxOpen ==
    /\ pc = "Xlsx"
    /\ \/ /\ RemoveFails
          /\ UNCHANGED <<it, i, rows1, rows2>>
       \/ /\ pc' = "XlsxRow"
          /\ it' = 0
          /\ i' = i
          /\ rows1' = <<>>
          /\ rows2' = <<>>
          /\ UNCHANGED <<cause, exitStatus>>
    /\ UNCHANGED <<reqs, failed, boards, prompted, num, boardId, cards, card, ait,
                   attachments, attLog, rendered, saves, funVars>>

\* every card taken as open
IsOpenAlways(closed) == TRUE

\* str(card['closed']) == 'False'
IsOpen(closed) == closed = "False"

\* one turn of "for i in range(len(cards))": one row on one of the two sheets
XlsxRow ==
    /\ pc = "XlsxRow"
    /\ it < Len(cards)
    /\ i' = it
    /\ it' = it + 1
    /\ IF IsOpen(cards[it + 1].closed)
       THEN /\ rows1' = Append(rows1, cards[it + 1].id)
            /\ UNCHANGED rows2
       ELSE /\ rows2' = Append(rows2, cards[it + 1].id)
            /\ UNCHANGED rows1
    /\ UNCHANGED <<pc, cause, exitStatus, reqs, failed, boards, prompted, num, boardId,
                   cards, card, ait, attachments, attLog, rendered, saves, funVars>>

\* the range is exhausted: autofilter, workbook.close()
XlsxClose ==
    /\ pc = "XlsxRow"
    /\ it = Len(cards)
    /\ pc' = "CardFetch"
    /\ it' = 0
    /\ UNCHANGED <<cause, exitStatus, reqs, failed, boards, prompted, num, boardId, cards,
                   i, rows1, rows2, card, ait, attachments, attLog, rendered,
                   saves, funVars>>

-----------------------------------------------------------------------------
(* Step 4 : Export cards to DOCX *)

NoCard == [id |-> 0, closed |-> "False", nAtt |-> 0]

\* a loop that increments the variable it binds, as "i += 1" would
RangeNextFromVariable(counter, variable) == variable + 1

\* the next value "for i in range(...)" binds: the iterator keeps its own
\* counter and never reads the variable it binds
RangeNext(counter, variable) == counter

\* the loop variable after the label, checklist and comment loops
AfterInnerLoops(nl, nc, na, old) ==
    AfterRange(na, AfterRange(nc, AfterRange(nl, old)))

\* one turn of the card loop up to "attachments = []": the detail request,
\* then labels, dates, checklists and comments, whose loops bind i
CardFetch ==
    /\ pc = "CardFetch"
    /\ RangeNext(it, i) < Len(cards)
    /\ it' = it + 1
    /\ \E out \in Outcomes :
        /\ Request("card", cards[RangeNext(it, i) + 1].id, out)
        /\ \/ /\ out = "exc"
              /\ Crash("card_exception")
              /\ i' = RangeNext(it, i)
              /\ UNCHANGED <<card, attachments, attLog, ait>>
           \/ /\ out = "status"
              /\ Exit("card_status")
              /\ i' = RangeNext(it, i)
              /\ UNCHANGED <<card, attachments, attLog, ait>>
           \/ /\ out = "ok"
              /\ \E closed \in ClosedValues, n \in 0..MaxAtt :
                   card' = [id |-> cards[RangeNext(it, i) + 1].id,
                            closed |-> closed, nAtt |-> n]
              /\ i' \in {AfterInnerLoops(nl, nc, na, RangeNext(it, i)) :
                           nl \in 0..MaxInner, nc \in 0..MaxInner, na \in 0..MaxInner}
              /\ attachments' = <<>>
              /\ attLog' = <<>>
              /\ ait' = 0
              /\ pc' = "Attachments"
              /\ UNCHANGED <<cause, exitStatus>>
    /\ UNCHANGED <<boards, prompted, num, boardId, cards, rows1, rows2,
                   rendered, saves, funVars>>

\* the download is skipped: requests.request raised
Skipped(out) == out = "exc"

\* one turn of the attachment loop
Attachment ==
    /\ pc = "Attachments"
    /\ ait < card.nAtt
    /\ i' = ait
    /\ ait' = ait + 1
    /\ \/ /\ RemoveFails
          /\ UNCHANGED <<reqs, failed, attachments, attLog>>
       \/ \E out \in Outcomes :
            /\ UNCHANGED <<reqs, failed>>
            /\ attLog' = Append(attLog, out)
            /\ attachments' = IF Skipped(out) THEN attachments
                              ELSE Append(attachments, ait + 1)
            /\ UNCHANGED <<pc, cause, exitStatus>>
    /\ UNCHANGED <<boards, prompted, num, boardId, cards, it, rows1, rows2, card,
                   rendered, saves, funVars>>

\* the directory of a card's document
SaveDir(closed) == IF IsOpen(closed) THEN "cards" ELSE "archived"

\* context, document.render, remove_if_exists and document.save
RenderSave ==
    /\ pc = "Attachments"
    /\ ait = card.nAtt
    /\ rendered' = rendered + 1
    /\ \/ /\ RemoveFails
          /\ UNCHANGED saves
       \/ /\ saves' = Append(saves, [id |-> card.id, closed |-> card.closed,
                                     dir |-> SaveDir(card.closed)])
          /\ pc' = "CardFetch"
          /\ UNCHANGED <<cause, exitStatus>>
    /\ UNCHANGED <<reqs, failed, boards, prompted, num, boardId, cards, it, i, rows1,
                   rows2, card, ait, attachments, attLog, funVars>>

\* the card loop is exhausted: the script ends
Finish ==
    /\ pc = "CardFetch"
    /\ ~(RangeNext(it, i) < Len(cards))
    /\ pc' = "finished"
    /\ cause' = "end"
    /\ exitStatus' = EndStatus
    /\ UNCHANGED <<reqs, failed, boards, prompted, num, boardId, cards, it, i, rows1,
                   rows2, card, ait, attachments, attLog, rendered, saves, funVars>>

-----------------------------------------------------------------------------
(* The run *)

NoFun == <<>>

Init ==
    /\ pc = "GetBoards"
    /\ cause = ""
    /\ exitStatus = -1
    /\ reqs = <<>>
    /\ failed = FALSE
    /\ boards = <<>>
    /\ prompted = FALSE
    /\ num = 0
    /\ boardId = 0
    /\ cards = <<>>
    /\ it = 0
    /\ i = -1
    /\ rows1 = <<>>
    /\ rows2 = <<>>
    /\ card = NoCard
    /\ ait = 0
    /\ attachments = <<>>
    /\ attLog = <<>>
    /\ rendered = 0
    /\ saves = <<>>
    /\ san = NoFun
    /\ esc = NoFun
    /\ pct = NoFun
    /\ dat = NoFun
    /\ fil = NoFun

Next ==
    \/ GetBoards
    \/ PromptBoard
    \/ SelectSole
    \/ GetLists
    \/ GetCards
    \/ XlsxOpen
    \/ XlsxRow
    \/ XlsxClose
    \/ CardFetch
    \/ Attachment
    \/ RenderSave
    \/ Finish

Spec == Init /\ [][Next]_vars

-----------------------------------------------------------------------------
(* Text *)

MaxLen == 4

\* in a function specification the script itself does not move
RunIdle ==
    /\ pc = "GetBoards"
    /\ cause = ""
    /\ exitStatus = -1
    /\ reqs = <<>>
    /\ failed = FALSE
    /\ boards = <<>>
    /\ prompted = FALSE
    /\ num = 0
    /\ boardId = 0
    /\ cards = <<>>
    /\ it = 0
    /\ i = -1
    /\ rows1 = <<>>
    /\ rows2 = <<>>
    /\ card = NoCard
    /\ ait = 0
    /\ attachments = <<>>
    /\ attLog = <<>>
    /\ rendered = 0
    /\ saves = <<>>

RECURSIVE Flatten(_)
Flatten(ss) == IF ss = <<>> THEN <<>> ELSE Head(ss) \o Flatten(Tail(ss))

\* sep.join(parts)
RECURSIVE Join(_, _)
Join(parts, sep) ==
    IF parts = <<>> THEN <<>>
    ELSE IF Len(parts) = 1 THEN parts[1]
    ELSE parts[1] \o sep \o Join(Tail(parts), sep)

-----------------------------------------------------------------------------
(* sanitize_filename *)

\* a letter, a hyphen, an underscore, a space, a dot, a sign that is no word
\* character, the letter e with an acute accent (U+00E9) and the horizontal
\* ellipsis (U+2026)
NameChars == {"a", "-", "_", " ", ".", "!", "eacute", "hellip"}

\* unicodedata.normalize('NFKD', c).encode('ascii', 'ignore'): the accented
\* letter decomposes to its base letter and a combining mark, which is
\* dropped; the ellipsis decomposes to three dots
Nfkd(c) ==
    IF c = "eacute" THEN <<"e">>
    ELSE IF c = "hellip" THEN <<".", ".", ".">>
    ELSE <<c>>

NfkdAscii(s) == Flatten([k \in 1..Len(s) |-> Nfkd(s[k])])

\* \w: letters, digits and the underscore
Digits == {"0", "1", "2", "3", "4", "5", "6", "7", "8", "9"}
WordChars == {"a", "e", "_"} \cup Digits
SpaceChars == {" "}

\* [^\.\w\s-]
NotKept(c) == c \notin ({".", "-"} \cup WordChars \cup SpaceChars)
Kept(c) == ~NotKept(c)

RECURSIVE DropWhileIn(_, _)
DropWhileIn(s, S) ==
    IF s # <<>> /\ Head(s) \in S THEN DropWhileIn(Tail(s), S) ELSE s

\* re.sub(r'[S]+', r, s): every maximal run of characters of S becomes r
RECURSIVE SubRuns(_, _, _)
SubRuns(s, S, r) ==
    IF s = <<>> THEN <<>>
    ELSE IF Head(s) \in S THEN <<r>> \o SubRuns(DropWhileIn(Tail(s), S), S, r)
    ELSE <<Head(s)>> \o SubRuns(Tail(s), S, r)

RECURSIVE DropLastWhileIn(_, _)
DropLastWhileIn(s, S) ==
    IF s # <<>> /\ s[Len(s)] \in S
    THEN DropLastWhileIn(SubSeq(s, 1, Len(s) - 1), S)
    ELSE s

\* s.strip(chars)
Strip(s, S) == DropLastWhileIn(DropWhileIn(s, S), S)

\* the same steps with strip applied before the runs are collapsed
SanitizeStripFirst(filename) ==
    SubRuns(SubRuns(Strip(SelectSeq(NfkdAscii(filename), Kept), {"-", "_", "."}),
                    {"-", "_"} \cup SpaceChars, "-"),
            {"."}, ".")

sanitize_filename(filename) ==
    Strip(SubRuns(SubRuns(SelectSeq(NfkdAscii(filename), Kept),
                          {"-", "_"} \cup SpaceChars, "-"),
                  {"."}, "."),
          {"-", "_", "."})

SanInit ==
    /\ RunIdle
    /\ san \in {[stage |-> 0, input |-> s, once |-> <<>>, twice |-> <<>>] :
                  s \in SeqsUpTo(NameChars, MaxLen)}
    /\ esc = NoFun
    /\ pct = NoFun
    /\ dat = NoFun
    /\ fil = NoFun

SanOnce ==
    /\ san.stage = 0
    /\ san' = [san EXCEPT !.stage = 1, !.once = sanitize_filename(san.input)]
    /\ UNCHANGED <<runVars, esc, pct, dat, fil>>

SanTwice ==
    /\ san.stage = 1
    /\ san' = [san EXCEPT !.stage = 2, !.twice = sanitize_filename(san.once)]
    /\ UNCHANGED <<runVars, esc, pct, dat, fil>>

SanNext == SanOnce \/ SanTwice

SpecSan == SanInit /\ [][SanNext]_vars

-----------------------------------------------------------------------------
(* escape_xml and the text of the rendering context *)

MaxText == 2

TextChars == {"a", "&", "<", ">"}

\* s.replace(c, r) for a one-character c
RECURSIVE Replace(_, _, _)
Replace(s, c, r) ==
    IF s = <<>> THEN <<>>
    ELSE (IF Head(s) = c THEN r ELSE <<Head(s)>>) \o Replace(Tail(s), c, r)

Amp == <<"&", "a", "m", "p", ";">>
Lt == <<"&", "l", "t", ";">>
Gt == <<"&", "g", "t", ";">>

\* .replace("&", "&amp;").replace("<", "&lt;").replace(">", "&gt;")
escape_xml(str_input) ==
    Replace(Replace(Replace(str_input, "&", Amp), "<", Lt), ">", Gt)

\* a card detail with one label per text, one checklist with one check-item
\* and one comment
CardText(t, u) ==
    [name |-> t, idList |-> 2, desc |-> u,
     lists |-> <<[id |-> 1, name |-> t], [id |-> 2, name |-> u]>>,
     labels |-> <<[name |-> t], [name |-> u]>>,
     checklists |-> <<[name |-> t, checkItems |-> <<[name |-> u]>>]>>,
     actions |-> <<[author |-> u, text |-> t]>>]

\* lists_get_name: the name of the first row with that id, or ''
RECURSIVE lists_get_name(_, _)
lists_get_name(listId, haystack) ==
    IF haystack = <<>> THEN <<>>
    ELSE IF Head(haystack).id = listId THEN Head(haystack).name
    ELSE lists_get_name(listId, Tail(haystack))

NonEmptyName(x) == x.name # <<>>

\* arrLabels: the escaped names of the labels whose name is not empty
ArrLabels(c) ==
    LET named == SelectSeq(c.labels, NonEmptyName)
    IN  [k \in 1..Len(named) |-> escape_xml(named[k].name)]

\* cardLabels = ", ".join(arrLabels)
CardLabels(c) == Join(ArrLabels(c), <<",", " ">>)

\* the checklists of the context: name and check-item names
ContextChecklists(c) ==
    LET named == SelectSeq(c.checklists, NonEmptyName)
    IN  [k \in 1..Len(named) |->
           [name |-> escape_xml(named[k].name),
            checkItems |-> [j \in 1..Len(named[k].checkItems) |->
                              escape_xml(named[k].checkItems[j].name)]]]

\* the comments of the context: author and text
ContextActions(c) ==
    [k \in 1..Len(c.actions) |->
       [author |-> escape_xml(c.actions[k].author),
        text |-> escape_xml(c.actions[k].text)]]

\* the text entries of context
ContextOf(c) ==
    [title |-> escape_xml(c.name),
     list |-> escape_xml(lists_get_name(c.idList, c.lists)),
     labels |-> escape_xml(CardLabels(c)),
     description |-> escape_xml(c.desc),
     checklists |-> ContextChecklists(c),
     actions |-> ContextActions(c)]

EscInit ==
    /\ RunIdle
    /\ esc \in {[stage |-> 0, card |-> CardText(t, u), context |-> <<>>] :
                  t \in SeqsUpTo(TextChars, MaxText),
                  u \in SeqsUpTo(TextChars, MaxText)}
    /\ san = NoFun
    /\ pct = NoFun
    /\ dat = NoFun
    /\ fil = NoFun

BuildContext ==
    /\ esc.stage = 0
    /\ esc' = [esc EXCEPT !.stage = 1, !.context = ContextOf(esc.card)]
    /\ UNCHANGED <<runVars, san, pct, dat, fil>>

EscNext == BuildContext

SpecEsc == EscInit /\ [][EscNext]_vars

-----------------------------------------------------------------------------
(* Checklists: the check-item loop and the completion string *)

MaxItems == 8

ItemStates == {"complete", "incomplete"}
ChecklistNames == {"", "todo"}

\* int() without round(): truncation
RoundDown(a, n) == a \div n

\* round(a / n, 0) as an integer: to the nearest integer, a tie to the even
\* one.  The script rounds the floating-point value (K / N) * 100; for the
\* checklist lengths modelled here that value is exact whenever 100 * K / N
\* is a tie (N is then a multiple of 8 and below 40).
RoundHalfEven(a, n) ==
    LET q == a \div n
        r == a % n
    IN  IF 2 * r < n THEN q
        ELSE IF 2 * r > n THEN q + 1
        ELSE IF q % 2 = 0 THEN q ELSE q + 1

\* str(int(round((checklistComplete / len(checkItems)) * 100, 0))) + '%'
PcentComplet(complete, total) ==
    ToString(RoundHalfEven(100 * complete, total)) \o "%"

PctInit ==
    /\ RunIdle
    /\ pct \in {[stage |-> "checklist", name |-> n, checkItems |-> items, j |-> 0,
                 checklistComplete |-> 0, checklists |-> <<>>] :
                  n \in ChecklistNames, items \in SeqsUpTo(ItemStates, MaxItems)}
    /\ san = NoFun
    /\ esc = NoFun
    /\ dat = NoFun
    /\ fil = NoFun

\* a checklist with an empty name is not exported
PctSkip ==
    /\ pct.stage = "checklist"
    /\ pct.name = ""
    /\ pct' = [pct EXCEPT !.stage = "done"]
    /\ UNCHANGED <<runVars, san, esc, dat, fil>>

\* a checklist with check-items: the loop starts
PctEnter ==
    /\ pct.stage = "checklist"
    /\ pct.name # ""
    /\ Len(pct.checkItems) > 0
    /\ pct' = [pct EXCEPT !.stage = "items", !.j = 0, !.checklistComplete = 0]
    /\ UNCHANGED <<runVars, san, esc, dat, fil>>

\* one turn of "for j in range(len(checkItems))"
PctItem ==
    /\ pct.stage = "items"
    /\ pct.j < Len(pct.checkItems)
    /\ pct' = [pct EXCEPT
                 !.j = pct.j + 1,
                 !.checklistComplete =
                    IF pct.checkItems[pct.j + 1] = "complete"
                    THEN pct.checklistComplete + 1
                    ELSE pct.checklistComplete]
    /\ UNCHANGED <<runVars, san, esc, dat, fil>>

\* after the loop: pcentComplet, and the checklist is pushed
PctPush ==
    /\ pct.stage = "items"
    /\ pct.j = Len(pct.checkItems)
    /\ pct' = [pct EXCEPT
                 !.stage = "done",
                 !.checklists =
                    <<[name |-> pct.name,
                       pcentComplet |-> PcentComplet(pct.checklistComplete,
                                                     Len(pct.checkItems))]>>]
    /\ UNCHANGED <<runVars, san, esc, dat, fil>>

\* no check-item: pcentComplet stays '' and the checklist is pushed
PctPushEmpty ==
    /\ pct.stage = "checklist"
    /\ pct.name # ""
    /\ Len(pct.checkItems) = 0
    /\ pct' = [pct EXCEPT !.stage = "done",
                          !.checklists = <<[name |-> pct.name, pcentComplet |-> ""]>>]
    /\ UNCHANGED <<runVars, san, esc, dat, fil>>

PctNext == PctSkip \/ PctEnter \/ PctItem \/ PctPush \/ PctPushEmpty

SpecPct == PctInit /\ [][PctNext]_vars

-----------------------------------------------------------------------------
(* Checklists: the date of the last state change of a check-item *)

MaxActions == 3

ItemIds == {1, 2}
\* the instants of the actions: a calendar day and a time of that day
Instants == [day : {1, 2}, time : {1, 2}]

\* card['actions'] holds the two types the detail request asks for; only a
\* state change carries data.checkItem
Actions ==
    [type : {"updateCheckItemStateOnCard"}, checkItem : ItemIds, date : Instants]
      \cup [type : {"commentCard"}, checkItem : {0}, date : Instants]

\* convert_UTC_to_Local_Datetime(date).strftime(str_date_format): the
\* calendar day, without the time
FormatDate(date) == ToString(date.day)

\* no "break": the scan goes on and a later match overwrites the date
NoBreak(k, n) == k + 1

\* "break": the scan is over
Break(k, n) == n

DateInit ==
    /\ RunIdle
    /\ dat \in {[stage |-> "scan", id |-> c, actions |-> a, k |-> 0,
                 updateCheckItemStateDate |-> ""] :
                  c \in ItemIds, a \in SeqsUpTo(Actions, MaxActions)}
    /\ san = NoFun
    /\ esc = NoFun
    /\ pct = NoFun
    /\ fil = NoFun

\* one turn of "for k in range(len(card['actions']))"
DateScan ==
    /\ dat.stage = "scan"
    /\ dat.k < Len(dat.actions)
    /\ LET a == dat.actions[dat.k + 1]
       IN  IF a.type = "updateCheckItemStateOnCard" /\ a.checkItem = dat.id
           THEN dat' = [dat EXCEPT
                          !.updateCheckItemStateDate = FormatDate(a.date),
                          !.k = Break(dat.k, Len(dat.actions))]
           ELSE dat' = [dat EXCEPT !.k = dat.k + 1]
    /\ UNCHANGED <<runVars, san, esc, pct, fil>>

\* the scan is over: the check-item is pushed with the date found
DatePush ==
    /\ dat.stage = "scan"
    /\ dat.k = Len(dat.actions)
    /\ dat' = [dat EXCEPT !.stage = "done"]
    /\ UNCHANGED <<runVars, san, esc, pct, fil>>

DateNext == DateScan \/ DatePush

SpecDate == DateInit /\ [][DateNext]_vars

-----------------------------------------------------------------------------
(* Output files *)

\* the titles of cards and the names of attachments
Titles == {<<"a">>, <<"a", "!">>, <<"e">>}

OutputFileNameLimit == 250

\* s[:n]
Take(s, n) == SubSeq(s, 1, IF Len(s) < n THEN Len(s) ELSE n)

\* str(n) of a number of one digit
Str(n) == <<ToString(n)>>

\* sanitize_filename(card['name'])[:250] + ".docx"
outputFileName(name) ==
    Take(sanitize_filename(name), OutputFileNameLimit) \o <<".", "d", "o", "c", "x">>

\* sanitize_filename(str(card['idShort']) + "-" + str(attachment['name']))
attachmentFileName(idShort, name) ==
    sanitize_filename(Str(idShort) \o <<"-">> \o name)

\* the card detail as far as the output paths depend on it; idShort is the
\* card's number on the board, which Trello gives to one card only
CardDetails(idShort) ==
    [idShort : {idShort}, name : Titles, closed : ClosedValues,
     attachments : SeqsUpTo(Titles, MaxAtt)]

NoDetail == [idShort |-> 0, name |-> <<>>, closed |-> "False", attachments |-> <<>>]

\* the card loop starts on a board of n cards with the three directories
\* of a first export, which os.makedirs has just created
FilInit ==
    /\ RunIdle
    /\ fil \in {[stage |-> "fetch", n |-> n, it |-> 0, card |-> NoDetail, ait |-> 0,
                 pathToCards |-> {}, pathToArchived |-> {},
                 pathToAttachments |-> {}, saved |-> 0, written |-> 0] :
                  n \in 1..MaxCards}
    /\ san = NoFun
    /\ esc = NoFun
    /\ pct = NoFun
    /\ dat = NoFun

\* the head of the card loop: the detail of the next card is read; the run
\* ends there when the request fails
FilFetch ==
    /\ fil.stage = "fetch"
    /\ fil.it < fil.n
    /\ \/ fil' = [fil EXCEPT !.stage = "exited"]
       \/ \E c \in CardDetails(fil.it + 1) :
            fil' = [fil EXCEPT !.stage = "attachments", !.it = @ + 1,
                               !.card = c, !.ait = 0]
    /\ UNCHANGED <<runVars, san, esc, pct, dat>>

\* one attachment: remove_if_exists on its path, the download, the write
FilAttachment ==
    /\ fil.stage = "attachments"
    /\ fil.ait < Len(fil.card.attachments)
    /\ LET f == attachmentFileName(fil.card.idShort, fil.card.attachments[fil.ait + 1])
           removed == fil.pathToAttachments \ {f}
       IN  \/ /\ f \in fil.pathToAttachments
              /\ fil' = [fil EXCEPT !.stage = "exited"]
           \/ \E out \in Outcomes :
                fil' = [fil EXCEPT
                          !.ait = @ + 1,
                          !.pathToAttachments =
                             IF Skipped(out) THEN removed ELSE removed \cup {f},
                          !.written = IF Skipped(out) THEN @ ELSE @ + 1]
    /\ UNCHANGED <<runVars, san, esc, pct, dat>>

\* the document of the card: remove_if_exists on its path, document.save
FilSave ==
    /\ fil.stage = "attachments"
    /\ fil.ait = Len(fil.card.attachments)
    /\ LET f == outputFileName(fil.card.name)
           dir == IF SaveDir(fil.card.closed) = "cards"
                  THEN fil.pathToCards ELSE fil.pathToArchived
       IN  \/ /\ f \in dir
              /\ fil' = [fil EXCEPT !.stage = "exited"]
           \/ /\ SaveDir(fil.card.closed) = "cards"
              /\ fil' = [fil EXCEPT !.stage = "fetch", !.saved = @ + 1,
                                    !.pathToCards = (@ \ {f}) \cup {f}]
           \/ /\ SaveDir(fil.card.closed) = "archived"
              /\ fil' = [fil EXCEPT !.stage = "fetch", !.saved = @ + 1,
                                    !.pathToArchived = (@ \ {f}) \cup {f}]
    /\ UNCHANGED <<runVars, san, esc, pct, dat>>

\* the range of the card loop is exhausted: the script ends
FilFinish ==
    /\ fil.stage = "fetch"
    /\ fil.it = fil.n
    /\ fil' = [fil EXCEPT !.stage = "finished"]
    /\ UNCHANGED <<runVars, san, esc, pct, dat>>

FilNext == FilFetch \/ FilAttachment \/ FilSave \/ FilFinish

SpecFiles == FilInit /\ [][FilNext]_vars

-----------------------------------------------------------------------------
(* Claims about the run *)

IsOpenCard(c) == c.closed = "False"
IsArchivedCard(c) == c.closed # "False"
IdsOf(s) == [k \in 1..Len(s) |-> s[k].id]
NRows == Len(rows1) + Len(rows2)
IsCardReq(r) == r.kind = "card"
CardReqs == SelectSeq(reqs, IsCardReq)
XlsxDone == pc \in {"CardFetch", "Attachments", "finished"}

\* C1: every card goes to exactly one bucket, chosen by its closed flag alone.
\* The rows written so far are those of a prefix of the card list: the open
\* sheet holds its cards with closed = false, the archived sheet the others,
\* each once and in order, and after the pass both together hold one row per
\* card.  Every saved document went to cards/ when the closed flag of its
\* card detail is false and to archived/ otherwise, one document per card
\* in list order, and a run that ends normally saved one for every card.
C1_Partition ==
    /\ NRows <= Len(cards)
    /\ rows1 = IdsOf(SelectSeq(SubSeq(cards, 1, NRows), IsOpenCard))
    /\ rows2 = IdsOf(SelectSeq(SubSeq(cards, 1, NRows), IsArchivedCard))
    /\ XlsxDone => NRows = Len(cards)
    /\ Len(saves) <= Len(cards)
    /\ \A k \in DOMAIN saves :
         /\ saves[k].id = cards[k].id
         /\ saves[k].dir \in {"cards", "archived"}
         /\ saves[k].dir = "cards" <=> saves[k].closed = "False"
    /\ pc = "CardFetch" => Len(saves) = it
    /\ pc = "finished" => Len(saves) = Len(cards)

C1_Witness ==
    /\ pc = "finished"
    /\ Len(rows1) = 1
    /\ Len(rows2) = 1
    /\ \E k \in DOMAIN saves : saves[k].dir = "cards"
    /\ \E k \in DOMAIN saves : saves[k].dir = "archived"

\* C2: once one of the four API reads has raised or answered a status other
\* than 200 the run is over: the script is at a final position and from then
\* on no request is issued, no row is written and no document is rendered
\* or saved.  A run that ends without such a failure ends normally, on an
\* empty board, on an output file that cannot be removed or on the index
\* error of Step 2, never on a download.
C2_FatalReads ==
    /\ [](failed => pc \in Terminal)
    /\ [][failed => UNCHANGED <<reqs, rows1, rows2, rendered, saves, attLog,
                               attachments>>]_vars
    /\ []((pc \in Terminal /\ ~failed) =>
            cause \in {"end", "no_card", "remove_failed", "index_error"})

C2_Witness ==
    /\ failed
    /\ pc = "exited"
    /\ cause = "card_status"
    /\ Len(saves) = 1
    /\ Len(reqs) = 5

FatalCauses ==
    {"boards_exception", "boards_status", "lists_exception", "lists_status",
     "cards_exception", "cards_status", "card_exception", "card_status",
     "remove_failed"}

\* C3: every fatal condition (transport failure, non-200 API response, an
\* output file that cannot be removed) ends the process with a non-zero exit
\* status, and the status is 0 only after every card has been exported.
C3_ExitStatus ==
    /\ (pc \in Terminal /\ cause \in FatalCauses) => exitStatus # 0
    /\ exitStatus = 0 => (pc = "finished" /\ Len(saves) = Len(cards))

DownloadOk(k) == attLog[k] = "ok"

\* the positions, in order, of the downloads of the current card that succeeded
KeptOk == SelectSeq([k \in 1..Len(attLog) |-> k], DownloadOk)

\* C4: a failed download skips that attachment only: the attachment list of
\* the context holds exactly the attachments whose download succeeded, in
\* order, the later attachments are still downloaded, and the run does not
\* end on a download.
C4_FailedSkipped ==
    /\ attachments = KeptOk
    /\ pc \in Terminal => cause \notin {"download_exception", "download_status"}

\* C8: the detail request is issued once per card of the bulk list, in list
\* order, only after the bulk fetch and the spreadsheet pass, and a run that
\* reaches the end of the script has issued it for every card, whatever the
\* inner loops bound i to.
C8_DetailOnce ==
    /\ Len(CardReqs) <= Len(cards)
    /\ \A k \in DOMAIN CardReqs : CardReqs[k].id = cards[k].id
    /\ \A k \in DOMAIN reqs :
         reqs[k].kind = "card" =>
            /\ k > 3
            /\ reqs[3].kind = "cards"
            /\ NRows = Len(cards)
    /\ pc = "Attachments" => Len(CardReqs) = Len(saves) + 1
    /\ pc = "finished" => Len(CardReqs) = Len(cards)

C8_Witness ==
    /\ pc = "finished"
    /\ Len(cards) = 2
    /\ Len(CardReqs) = 2
    /\ i # it - 1

StepTwoOver ==
    /\ pc \notin {"GetBoards", "SelectBoard"}
    /\ cause \notin {"boards_exception", "boards_status"}

BoardIds == {boards[k].id : k \in DOMAIN boards}

BoardsSorted ==
    /\ \A k \in 1..(Len(boards) - 1) : boards[k].name <= boards[k + 1].name
    /\ BoardIds = 1..Len(boards)

Prompted ==
    /\ prompted
    /\ 0 <= num
    /\ num < Len(boards)
    /\ boardId = boards[num + 1].id

\* C9 as stated: past Step 2 a board of the list is selected; with more than
\* one board the sorted list was shown and the n-th board taken for a typed
\* n in range; otherwise there was no prompt and the sole board is selected.
C9_SoleOtherwise ==
    /\ BoardsSorted
    /\ StepTwoOver =>
         /\ boardId \in BoardIds
         /\ Len(boards) > 1 => Prompted
         /\ Len(boards) <= 1 =>
              (~prompted /\ Len(boards) = 1 /\ boardId = boards[1].id)

\* C9 amended: as above when one board or more is returned; when none is
\* returned there is no prompt, boards[0] raises an IndexError and the run
\* ends there with no board selected and no further request.
C9_Selected ==
    /\ BoardsSorted
    /\ \A k \in DOMAIN reqs :
         reqs[k].kind \in {"lists", "cards"} => reqs[k].id \in BoardIds
    /\ StepTwoOver =>
         /\ Len(boards) > 1 => Prompted
         /\ Len(boards) = 1 => (~prompted /\ boardId = boards[1].id)
         /\ Len(boards) = 0 =>
              /\ ~prompted
              /\ pc = "crashed"
              /\ cause = "index_error"
              /\ boardId = 0
              /\ Len(reqs) = 1

C9_Witness ==
    /\ pc = "finished"
    /\ prompted
    /\ num = 1
    /\ boards[1].id = 2
    /\ boards[1].name < boards[2].name

-----------------------------------------------------------------------------
(* Claims about sanitize_filename *)

\* C7: sanitize_filename is idempotent: a second application changes
\* nothing, and the result of one application holds only letters, digits,
\* '-' and '.', no two adjacent hyphens or dots, and no leading or trailing
\* '-', '_' or '.'.
C7_Idempotent ==
    /\ san.stage >= 1 =>
         /\ \A k \in DOMAIN san.once : san.once[k] \in {"a", "e", "-", "."}
         /\ \A k \in 1..(Len(san.once) - 1) :
              ~(san.once[k] = san.once[k + 1] /\ san.once[k] \in {"-", "."})
         /\ san.once # <<>> =>
              /\ san.once[1] \notin {"-", "_", "."}
              /\ san.once[Len(san.once)] \notin {"-", "_", "."}
    /\ san.stage = 2 => san.twice = san.once

C7_Witness ==
    /\ san.stage = 2
    /\ san.input = <<"_", "eacute", "!", "hellip">>
    /\ san.once = <<"e">>
    /\ san.twice = <<"e">>

-----------------------------------------------------------------------------
(* Claims about the rendering context *)

\* the text with each of '&', '<', '>' replaced by its entity, once
EscapedChar(c) ==
    IF c = "&" THEN Amp ELSE IF c = "<" THEN Lt ELSE IF c = ">" THEN Gt ELSE <<c>>
EscapedOnce(t) == Flatten([k \in 1..Len(t) |-> EscapedChar(t[k])])

RawLabels(c) ==
    LET named == SelectSeq(c.labels, NonEmptyName)
    IN  Join([k \in 1..Len(named) |-> named[k].name], <<",", " ">>)

\* the fields of the context other than the labels are escaped once
EscapedOnceButLabels ==
    esc.stage = 1 =>
      LET c == esc.card
          x == esc.context
      IN  /\ x.title = EscapedOnce(c.name)
          /\ x.list = EscapedOnce(c.lists[c.idList].name)
          /\ x.description = EscapedOnce(c.desc)
          /\ \A k \in DOMAIN x.checklists :
               /\ x.checklists[k].name \in
                    {EscapedOnce(c.checklists[n].name) : n \in DOMAIN c.checklists}
               /\ \A j \in DOMAIN x.checklists[k].checkItems :
                    x.checklists[k].checkItems[j] \in
                      {EscapedOnce(c.checklists[n].checkItems[j].name) :
                         n \in DOMAIN c.checklists}
          /\ \A k \in DOMAIN x.actions :
               /\ x.actions[k].author = EscapedOnce(c.actions[k].author)
               /\ x.actions[k].text = EscapedOnce(c.actions[k].text)

\* C5: every text of the context is the source text escaped exactly once:
\* title, list name, labels string, description, checklist and check-item
\* names, comment authors and comment texts.
C5_EscapedOnce ==
    /\ EscapedOnceButLabels
    /\ esc.stage = 1 => esc.context.labels = EscapedOnce(RawLabels(esc.card))

-----------------------------------------------------------------------------
(* Claims about checklists *)

NComplete == Cardinality({k \in DOMAIN pct.checkItems : pct.checkItems[k] = "complete"})
NItems == Len(pct.checkItems)

Exported == pct.stage = "done" /\ pct.name # ""

\* C6 as stated: the completion string is the integer nearest to 100*K/N,
\* the upper one when 100*K/N lies halfway between two integers.
C6_NearestHalfUp ==
    Exported =>
      /\ Len(pct.checklists) = 1
      /\ NItems = 0 => pct.checklists[1].pcentComplet = ""
      /\ NItems >= 1 =>
           pct.checklists[1].pcentComplet =
              ToString((200 * NComplete + NItems) \div (2 * NItems)) \o "%"

\* C6 amended: empty for a checklist without check-items; otherwise an
\* integer between 0 and 100 at distance at most 1/2 from 100*K/N, followed
\* by '%'.  On a tie it is one of the two neighbours, not always the upper.
C6_Nearest ==
    Exported =>
      /\ Len(pct.checklists) = 1
      /\ NItems = 0 => pct.checklists[1].pcentComplet = ""
      /\ NItems >= 1 =>
           \E r \in 0..100 :
              /\ pct.checklists[1].pcentComplet = ToString(r) \o "%"
              /\ 2 * (100 * NComplete - r * NItems) <= NItems
              /\ 2 * (r * NItems - 100 * NComplete) <= NItems

C6_Witness ==
    /\ Exported
    /\ NItems = 8
    /\ NComplete = 1
    /\ pct.checklists[1].pcentComplet = "12%"

-----------------------------------------------------------------------------
(* Claims about the state date of a check-item *)

\* the positions of the state changes of the check-item
Matching ==
    {k \in DOMAIN dat.actions :
       /\ dat.actions[k].type = "updateCheckItemStateOnCard"
       /\ dat.actions[k].checkItem = dat.id}

NotAfter(d, e) == d.day < e.day \/ (d.day = e.day /\ d.time <= e.time)

MostRecent ==
    {k \in Matching : \A j \in Matching : NotAfter(dat.actions[j].date, dat.actions[k].date)}

NewestFirst ==
    \A k \in 1..(Len(dat.actions) - 1) :
       NotAfter(dat.actions[k + 1].date, dat.actions[k].date)

\* C10 as stated: the date of a check-item is that of the most recent state
\* change of that check-item in the action list, for every action list; it
\* is empty when the list holds none.
C10_MostRecent ==
    dat.stage = "done" =>
      /\ Matching = {} => dat.updateCheckItemStateDate = ""
      /\ \A k \in MostRecent :
           dat.updateCheckItemStateDate = FormatDate(dat.actions[k].date)

\* C10 amended: the date is that of the first state change of the check-item
\* in list order, and empty when the list holds none; it is the date of the
\* most recent one whenever the action list is ordered newest first.
C10_FirstMatch ==
    dat.stage = "done" =>
      /\ Matching = {} => dat.updateCheckItemStateDate = ""
      /\ \A k \in Matching :
           (\A j \in Matching : k <= j) =>
              dat.updateCheckItemStateDate = FormatDate(dat.actions[k].date)
      /\ NewestFirst =>
           \A k \in MostRecent :
              dat.updateCheckItemStateDate = FormatDate(dat.actions[k].date)

C10_Witness ==
    /\ dat.stage = "done"
    /\ Len(dat.actions) = 3
    /\ Matching = {2, 3}
    /\ dat.actions[2].date.day = 1
    /\ dat.actions[3].date.day = 2
    /\ dat.updateCheckItemStateDate = "1"

-----------------------------------------------------------------------------
(* Claims about the output files *)

DocumentFiles == Cardinality(fil.pathToCards) + Cardinality(fil.pathToArchived)

\* C11: within one run the document saved for a card is never deleted or
\* overwritten by the export of another card: the documents in cards/ and
\* archived/ are as many as the documents saved so far, and as many as the
\* cards of the board when the run reaches its end; likewise the files under
\* attachments/ are as many as the attachments written.
C11_DistinctPaths ==
    /\ DocumentFiles = fil.saved
    /\ fil.stage = "finished" => DocumentFiles = fil.n
    /\ Cardinality(fil.pathToAttachments) = fil.written

====
